------------------------------ MODULE Spec2Model ------------------------------
(***************************************************************************)
(* Model of canedge_browser: the date-range log file search of             *)
(* canedge_browser/listing.py (get_log_files, _bisect_list,                *)
(* _get_objects_in_path, the two extract-date wrappers), its               *)
(* get_first_timestamp, and the memoising list of                          *)
(* support/FuncBackedList.py.                                              *)
(*                                                                         *)
(* Encoding.  A timestamp is an integer; None is -1.  A path is a record   *)
(* [dev, ses, ctr, ext]: device directory /dev, session directory          *)
(* /dev/ses, log file /dev/ses/ctr.ext (names are fixed-width counters as  *)
(* on a CANedge card, so string order is the order of (dev, ses, ctr,      *)
(* ext)).  A string handed in by the caller as a device is a sequence of   *)
(* path components, 0 being an empty component ("/" is <<0>>).             *)
(***************************************************************************)
EXTENDS Integers, Sequences, FiniteSets, TLC

\* Bounds of the explored inputs.
MaxTime == 2
MaxFiles == 4
MaxSessions == 3
MaxDevices == 2
MaxKeys == 2
MaxLen == 2
MaxReads == 3

\* Python's None, where a timestamp or an index value is optional.
None == -1
\* datetime.utcfromtimestamp(0): the timestamp of a session without log files.
Epoch == 0

VARIABLES
    fs,               \* the filesystem: [exists, nodes, bad]
    fs_arg,           \* what is passed as fs: "ok", "none", "invalid"
    devices_arg,      \* what is passed as devices: "list", "str", "none"
    devices,          \* the caller's devices object (a list of strings)
    path,             \* the path argument (prefix of every device)
    file_extensions,  \* the file_extensions argument, NoneExt when not given
    start_date,       \* keyword start_date, None when not given
    stop_date,        \* keyword stop_date, None when not given
    pc,               \* "call", "loop", "returned", "raised"
    device_list,      \* the local name devices after line 100
    extensions,       \* the local set of lower-cased extensions
    i,                \* number of loop iterations of line 126 completed
    result,           \* the local list result
    returned,         \* the value handed back to the caller
    error,            \* the exception that left the call, "" when none
    log,              \* every filesystem operation issued so far
    objects,          \* the list handed to a _bisect_list call of its own
    selection,        \* the outcome of that call
    fbl,              \* a FuncBackedList used on its own: [func, keys, values]
    reads,            \* per index of fbl, the reads made of it so far
    first_path,       \* the path argument of get_first_timestamp: [kind, paths]
    first             \* what get_first_timestamp handed back

vars == <<fs, fs_arg, devices_arg, devices, path, file_extensions, start_date,
          stop_date, pc, device_list, extensions, i, result, returned, error, log,
          objects, selection, fbl, reads, first_path, first>>

\* What only a _bisect_list call of its own writes.
bisect_vars == <<objects, selection>>

\* What only the operations on a FuncBackedList of its own write.
list_vars == <<fbl, reads>>

\* What only a get_first_timestamp call writes.
first_vars == <<first_path, first>>

-----------------------------------------------------------------------------
(* Strings: extensions and paths *)

\* An Optional[Set[str]] that is None.
NoneExt == {"None"}

\* str.lower() on an extension.
Lower(ext) ==
    CASE ext = "MF4" -> "mf4"
      [] ext = "TXT" -> "txt"
      [] OTHER -> ext

\* Position of an extension in ASCII order ("" is a name without a dot).
ExtRank(ext) ==
    CASE ext = "" -> 0
      [] ext = "MF4" -> 1
      [] ext = "TXT" -> 2
      [] ext = "mf4" -> 3
      [] ext = "txt" -> 4

\* p < q for the strings the two paths stand for.
PathLess(p, q) ==
    \/ p.dev < q.dev
    \/ p.dev = q.dev /\ p.ses < q.ses
    \/ p.dev = q.dev /\ p.ses = q.ses /\ p.ctr < q.ctr
    \/ p.dev = q.dev /\ p.ses = q.ses /\ p.ctr = q.ctr /\ ExtRank(p.ext) < ExtRank(q.ext)

\* x put into the sorted list s, after the entries that are not greater.
Insert(x, s) ==
    LET k == Cardinality({j \in 1..Len(s) : ~PathLess(x, s[j])})
    IN  SubSeq(s, 1, k) \o <<x>> \o SubSeq(s, k + 1, Len(s))

\* The builtin sorted() on a list of strings.
RECURSIVE sorted(_)
sorted(s) ==
    IF Len(s) <= 1 THEN s
    ELSE Insert(s[Len(s)], sorted(SubSeq(s, 1, Len(s) - 1)))

\* The entries of a directory in the order the filesystem happens to give.
RECURSIVE AnyOrder(_)
AnyOrder(S) ==
    IF S = {} THEN <<>>
    ELSE LET x == CHOOSE y \in S : \A z \in S : z = y \/ ~PathLess(y, z)
         IN  <<x>> \o AnyOrder(S \ {x})

-----------------------------------------------------------------------------
(* The filesystem collaborator *)

DevicePath(d) == [dev |-> d, ses |-> 0, ctr |-> 0, ext |-> ""]
SessionPath(d, s) == [dev |-> d, ses |-> s, ctr |-> 0, ext |-> ""]
FilePath(d, s, c, e) == [dev |-> d, ses |-> s, ctr |-> c, ext |-> e]

\* The path translation of the filesystem: empty components and the leading
\* slash vanish; what is left names a device directory when it is one component.
Translate(root) ==
    LET parts == SelectSeq(root, LAMBDA c : c # 0)
    IN  IF Len(parts) = 1 THEN DevicePath(parts[1]) ELSE DevicePath(0)

\* fs.ls(path, detail=True): the entries directly under a directory, or
\* FileNotFoundError.
ls(f, p) ==
    IF p.ses = 0
    THEN IF p.dev \in f.exists
         THEN [err |-> "", out |-> {n \in f.nodes : n.name.dev = p.dev /\ n.name.ctr = 0}]
         ELSE [err |-> "FileNotFoundError", out |-> {}]
    ELSE IF \E n \in f.nodes : n.name = p /\ n.type = "directory"
         THEN [err |-> "",
               out |-> {n \in f.nodes : /\ p.ctr = 0
                                        /\ n.name.dev = p.dev
                                        /\ n.name.ses = p.ses
                                        /\ n.name.ctr > 0}]
         ELSE [err |-> "FileNotFoundError", out |-> {}]

\* fs.isdir(path) and fs.isfile(path).
isdir(f, p) ==
    \/ p.ses = 0 /\ p.dev \in f.exists
    \/ \E n \in f.nodes : n.name = p /\ n.type = "directory"

isfile(f, p) == \E n \in f.nodes : n.name = p /\ n.type = "file"

\* The decoder on an open handle: the timestamp of the first measurement, or
\* a failure for a file that cannot be read.
extract_date(f, p) ==
    IF p \in f.bad
    THEN [err |-> "ExtractError", out |-> None]
    ELSE [err |-> "", out |-> (CHOOSE n \in f.nodes : n.name = p).ts]

Ev(op, p) == [op |-> op, path |-> p]

\* The outcome r of an operation, with the operations issued before it put
\* in front of its own.
Logged(before, r) == [r EXCEPT !.log = before \o r.log]

\* The with block releasing the handle only when the decoder returns.
Opened_unscoped(p, d) ==
    [err |-> d.err, out |-> d.out,
     log |-> IF d.err # "" THEN <<Ev("open", p)>> ELSE <<Ev("open", p), Ev("close", p)>>]

\* with fs.open(p, ...) as handle: result = extract_date(handle).  The handle
\* is released when the block is left, by a return or by an exception.
Opened(p, d) == [err |-> d.err, out |-> d.out, log |-> <<Ev("open", p), Ev("close", p)>>]

-----------------------------------------------------------------------------
(* listing.py *)

\* _get_objects_in_path comparing the suffix as it is spelled (line 258
\* without .lower()).
get_objects_in_path_cased(f, p, target_type, exts) ==
    LET filtered(listing) ==
            {n.name : n \in {m \in listing : target_type = "None" \/ m.type = target_type}}
        suffixed(typed) ==
            IF exts = NoneExt
            THEN typed
            ELSE {e \in typed : e.ext # "" /\ e.ext \in exts}
        listed(listing) ==
            [err |-> listing.err,
             out |-> IF listing.err # ""
                     THEN <<>>
                     ELSE sorted(AnyOrder(suffixed(filtered(listing.out)))),
             log |-> <<Ev("ls", p)>>]
    IN  listed(ls(f, p))

get_objects_in_path(f, p, target_type, exts) ==
    LET filtered(listing) ==
            {n.name : n \in {m \in listing : target_type = "None" \/ m.type = target_type}}
        suffixed(typed) ==
            IF exts = NoneExt
            THEN typed
            ELSE {e \in typed : e.ext # "" /\ Lower(e.ext) \in exts}
        listed(listing) ==
            [err |-> listing.err,
             out |-> IF listing.err # ""
                     THEN <<>>
                     ELSE sorted(AnyOrder(suffixed(filtered(listing.out)))),
             log |-> <<Ev("ls", p)>>]
    IN  listed(ls(f, p))

extract_date_wrapper(p, f) == Opened(p, extract_date(f, p))

extract_date_from_session_wrapper(p, f, exts) ==
    LET first_of(session_log_files) ==
            IF session_log_files.err # ""
            THEN [err |-> session_log_files.err, out |-> None, log |-> session_log_files.log]
            ELSE IF Len(session_log_files.out) > 0
            THEN Logged(session_log_files.log,
                        Opened(session_log_files.out[1],
                               extract_date(f, session_log_files.out[1])))
            ELSE [err |-> "", out |-> Epoch, log |-> session_log_files.log]
    IN  first_of(get_objects_in_path(f, p, "file", {Lower(e) : e \in exts}))

-----------------------------------------------------------------------------
(* support/FuncBackedList.py *)

\* functools.partial(_extract_date_wrapper, ...) and its session sibling, as
\* values: kind "None" is an absent extractor.
FileExtractor(f) == [kind |-> "file", fs |-> f, extensions |-> {}]
SessionExtractor(f, exts) == [kind |-> "session", fs |-> f, extensions |-> exts]
NoExtractor(f) == [kind |-> "None", fs |-> f, extensions |-> {}]
\* Any other callable: what it does for each key is given by a table, the
\* exception it raises or the value it returns.
Callable(table) == [kind |-> "callable", table |-> table]

\* self._func(key)
call_func(func, key) ==
    IF func.kind = "session"
    THEN extract_date_from_session_wrapper(key, func.fs, func.extensions)
    ELSE IF func.kind = "callable"
    THEN [err |-> func.table[key].err, out |-> func.table[key].out,
          log |-> <<Ev("call", key)>>]
    ELSE extract_date_wrapper(key, func.fs)

FuncBackedList(func, items) ==
    [func |-> func, keys |-> items, values |-> [j \in 1..Len(items) |-> None]]

\* FuncBackedList.append
append(l, value) ==
    [l EXCEPT !.keys = Append(l.keys, value), !.values = Append(l.values, None)]

len(l) == Len(l.keys)

\* __getitem__ without the cache: the callable is invoked on every read.
getitem_uncached(l, item) ==
    LET fresh(c) == [list |-> l, err |-> c.err, out |-> c.out, log |-> c.log]
    IN  fresh(call_func(l.func, l.keys[item + 1]))

\* __getitem__ marking the index as resolved before the callable is invoked:
\* a failed resolution leaves the timestamp of the epoch in the cache.
getitem_marked(l, item) ==
    LET store(c) ==
            IF c.err # ""
            THEN [list |-> [l EXCEPT !.values[item + 1] = Epoch],
                  err |-> c.err, out |-> None, log |-> c.log]
            ELSE [list |-> [l EXCEPT !.values[item + 1] = c.out],
                  err |-> "", out |-> c.out, log |-> c.log]
    IN  IF l.values[item + 1] # None
        THEN [list |-> l, err |-> "", out |-> l.values[item + 1], log |-> <<>>]
        ELSE store(call_func(l.func, l.keys[item + 1]))

\* FuncBackedList.__getitem__, item counted from 0.
getitem(l, item) ==
    LET store(c) ==
            IF c.err # ""
            THEN [list |-> l, err |-> c.err, out |-> None, log |-> c.log]
            ELSE [list |-> [l EXCEPT !.values[item + 1] = c.out],
                  err |-> "", out |-> c.out, log |-> c.log]
    IN  IF l.values[item + 1] # None
        THEN [list |-> l, err |-> "", out |-> l.values[item + 1], log |-> <<>>]
        ELSE store(call_func(l.func, l.keys[item + 1]))

-----------------------------------------------------------------------------
(* bisect, as called from _bisect_list *)

\* An index found without reading the list.
Found(a, index) == [list |-> a, err |-> "", out |-> index, log |-> <<>>]

RECURSIVE bisect_left(_, _, _, _)
bisect_left(a, x, lo, hi) ==
    LET probe(mid, g) ==
            IF g.err # ""
            THEN [list |-> g.list, err |-> g.err, out |-> None, log |-> g.log]
            ELSE Logged(g.log, IF g.out < x
                               THEN bisect_left(g.list, x, mid + 1, hi)
                               ELSE bisect_left(g.list, x, lo, mid))
    IN  IF lo >= hi
        THEN Found(a, lo)
        ELSE probe((lo + hi) \div 2, getitem(a, (lo + hi) \div 2))

\* bisect.bisect_right stopping before the entries equal to x, as
\* bisect.bisect_left does.
bisect_right_exclusive(a, x, lo, hi) == bisect_left(a, x, lo, hi)

RECURSIVE bisect_right(_, _, _, _)
bisect_right(a, x, lo, hi) ==
    LET probe(mid, g) ==
            IF g.err # ""
            THEN [list |-> g.list, err |-> g.err, out |-> None, log |-> g.log]
            ELSE Logged(g.log, IF x < g.out
                               THEN bisect_right(g.list, x, lo, mid)
                               ELSE bisect_right(g.list, x, mid + 1, hi))
    IN  IF lo >= hi
        THEN Found(a, lo)
        ELSE probe((lo + hi) \div 2, getitem(a, (lo + hi) \div 2))

\* s[a:b] of Python for 0 <= a, 0 <= b.
Slice(s, a, b) == SubSeq(s, a + 1, IF b > Len(s) THEN Len(s) ELSE b)

\* Lines 322-326 without the test against len(bisect_list).
StartIndex_unguarded(bisect_list, lower_bound, found) ==
    IF lower_bound # None /\ found # 0 THEN found - 1 ELSE found

\* The index left by lines 322-326.
StartIndex(bisect_list, lower_bound, found) ==
    IF lower_bound # None /\ found # len(bisect_list) /\ found # 0
    THEN found - 1
    ELSE found

\* The index left by lines 329-333.
StopIndex(sorted_objects, found) ==
    IF found > Len(sorted_objects) THEN Len(sorted_objects) ELSE found

bisect_list(sorted_objects, extractor, lower_bound, upper_bound) ==
    LET cut(lo, hi) ==
            IF hi.err # ""
            THEN [err |-> hi.err, out |-> <<>>, log |-> lo.log \o hi.log]
            ELSE [err |-> "",
                  out |-> Slice(sorted_objects,
                                StartIndex(lo.list, lower_bound, lo.out),
                                StopIndex(sorted_objects, hi.out)),
                  log |-> lo.log \o hi.log]
        upper(lo) ==
            IF lo.err # ""
            THEN [err |-> lo.err, out |-> <<>>, log |-> lo.log]
            ELSE cut(lo, IF upper_bound # None
                         THEN bisect_right(lo.list, upper_bound, 0, len(lo.list))
                         ELSE Found(lo.list, Len(sorted_objects)))
        lower(l0) ==
            upper(IF lower_bound # None
                  THEN bisect_left(l0, lower_bound, 0, len(l0))
                  ELSE Found(l0, 0))
    IN  IF extractor.kind = "None"
        THEN [err |-> "", out |-> sorted_objects, log |-> <<>>]
        ELSE lower(FuncBackedList(extractor, sorted_objects))

-----------------------------------------------------------------------------
(* get_log_files: the body of the loop over the devices, lines 126-183 *)

\* One operation after another: the second runs only if the first did not
\* raise, and result.extend() has then received the lists of both.
Then(a, b) ==
    IF a.err # ""
    THEN [err |-> a.err, out |-> <<>>, log |-> a.log]
    ELSE [err |-> b.err, out |-> IF b.err # "" THEN <<>> ELSE a.out \o b.out, log |-> a.log \o b.log]

\* Lines 156-166 (lower_bound alone) and 173-183 (upper_bound alone): the
\* files of a boundary session.
boundary_session(f, session, exts, lower_bound, upper_bound) ==
    LET narrowed(log_file_list) ==
            IF log_file_list.err # "" \/ Len(log_file_list.out) = 1
            THEN log_file_list
            ELSE Logged(log_file_list.log,
                        bisect_list(log_file_list.out, FileExtractor(f), lower_bound, upper_bound))
    IN  narrowed(get_objects_in_path(f, session, "file", exts))

\* Lines 169-170: every file of the sessions strictly between the boundaries.
RECURSIVE between_sessions(_, _, _)
between_sessions(f, sessions, exts) ==
    IF sessions = <<>>
    THEN [err |-> "", out |-> <<>>, log |-> <<>>]
    ELSE Then(get_objects_in_path(f, Head(sessions), "file", exts),
              between_sessions(f, Tail(sessions), exts))

\* Lines 143-152 without the call of _bisect_list: every file of the only
\* selected session.
single_session_whole(f, session, exts, lower_bound, upper_bound) ==
    get_objects_in_path(f, session, "file", exts)

\* Lines 143-152: the files of the only selected session.
single_session(f, session, exts, lower_bound, upper_bound) ==
    LET narrowed(log_file_list) ==
            IF log_file_list.err # ""
            THEN log_file_list
            ELSE Logged(log_file_list.log,
                        bisect_list(log_file_list.out, FileExtractor(f), lower_bound, upper_bound))
    IN  narrowed(get_objects_in_path(f, session, "file", exts))

\* Lines 142-183: the files of the selected sessions.
collect_files(f, selected_sessions, lower_bound, upper_bound, exts) ==
    IF Len(selected_sessions) = 1
    THEN single_session(f, selected_sessions[1], exts, lower_bound, upper_bound)
    ELSE IF Len(selected_sessions) > 1
    THEN Then(Then(boundary_session(f, selected_sessions[1], exts, lower_bound, None),
                   between_sessions(f, SubSeq(selected_sessions, 2, Len(selected_sessions) - 1),
                                    exts)),
              boundary_session(f, selected_sessions[Len(selected_sessions)], exts,
                               None, upper_bound))
    ELSE [err |-> "", out |-> <<>>, log |-> <<>>]

\* The loop body without the try of lines 128-131: FileNotFoundError leaves
\* get_log_files.
device_body_untried(f, device, lower_bound, upper_bound, exts) ==
    LET kept(files) ==
            [skip |-> FALSE, err |-> files.err, out |-> files.out, log |-> files.log]
        files_of(selected_sessions) ==
            IF selected_sessions.err # ""
            THEN selected_sessions
            ELSE Logged(selected_sessions.log,
                        collect_files(f, selected_sessions.out, lower_bound, upper_bound, exts))
        body(sessions) ==
            IF sessions.err # ""
            THEN kept(sessions)
            ELSE kept(Logged(sessions.log,
                             files_of(bisect_list(sessions.out, SessionExtractor(f, exts),
                                                  lower_bound, upper_bound))))
    IN  body(get_objects_in_path(f, Translate(device), "directory", NoneExt))

\* One iteration of the loop of line 126.  skip: the FileNotFoundError of
\* line 130; err: an exception that leaves get_log_files.
device_body(f, device, lower_bound, upper_bound, exts) ==
    LET kept(files) ==
            [skip |-> FALSE, err |-> files.err, out |-> files.out, log |-> files.log]
        files_of(selected_sessions) ==
            IF selected_sessions.err # ""
            THEN selected_sessions
            ELSE Logged(selected_sessions.log,
                        collect_files(f, selected_sessions.out, lower_bound, upper_bound, exts))
        body(sessions) ==
            IF sessions.err = "FileNotFoundError"
            THEN [skip |-> TRUE, err |-> "", out |-> <<>>, log |-> sessions.log]
            ELSE kept(Logged(sessions.log,
                             files_of(bisect_list(sessions.out, SessionExtractor(f, exts),
                                                  lower_bound, upper_bound))))
    IN  body(get_objects_in_path(f, Translate(device), "directory", NoneExt))

-----------------------------------------------------------------------------
(* get_log_files as a whole: one call from its arguments to its outcome *)

\* Line 104 for every entry: "{}/{}".format(path, device).
prefixed(prefix, devs) == [j \in 1..Len(devs) |-> prefix \o devs[j]]

\* Lines 89-93 with the extensions taken as they are spelled (line 93 without
\* .lower()).
lowered_extensions_cased(file_exts) ==
    IF file_exts = NoneExt THEN {"MF4"} ELSE file_exts

\* Lines 89-93.
lowered_extensions(file_exts) ==
    {Lower(e) : e \in (IF file_exts = NoneExt THEN {"MF4"} ELSE file_exts)}

\* Lines 124-183: the loop, from the device at position k on.
RECURSIVE run_devices(_, _, _, _, _, _)
run_devices(f, devs, k, lower_bound, upper_bound, exts) ==
    IF k > Len(devs)
    THEN [err |-> "", out |-> <<>>, log |-> <<>>]
    ELSE Then(device_body(f, devs[k], lower_bound, upper_bound, exts),
              run_devices(f, devs, k + 1, lower_bound, upper_bound, exts))

\* The outcome of get_log_files(fs, devices, path, file_extensions,
\* start_date=..., stop_date=...): the exception or the returned list, the
\* operations issued on the filesystem, and the caller's devices object after
\* the call.
get_log_files(f, f_arg, devs_arg, devs, prefix, file_exts, lower_bound, upper_bound) ==
    LET outcome(run) ==
            [err |-> run.err,
             out |-> IF run.err # "" THEN <<>> ELSE sorted(run.out),
             log |-> run.log,
             devices |-> IF devs_arg = "list" THEN prefixed(prefix, devs) ELSE devs]
    IN  IF f_arg = "none"
        THEN [err |-> "ValueError", out |-> <<>>, log |-> <<>>, devices |-> devs]
        ELSE IF f_arg = "invalid"
        THEN [err |-> "TypeError", out |-> <<>>, log |-> <<>>, devices |-> devs]
        ELSE IF devs_arg = "none"
        THEN [err |-> "TypeError", out |-> <<>>, log |-> <<>>, devices |-> devs]
        ELSE outcome(run_devices(f, prefixed(prefix, devs), 1, lower_bound, upper_bound,
                                 lowered_extensions(file_exts)))

-----------------------------------------------------------------------------
(* get_first_timestamp *)

\* _extract_date_helper taking the last file of the listing (line 197 with
\* log_file_list[-1]).
extract_date_helper_last(f, p, exts) ==
    LET read(q, before) ==
            IF isfile(f, q)
            THEN Logged(before \o <<Ev("isfile", q)>>, Opened(q, extract_date(f, q)))
            ELSE [err |-> "", out |-> None, log |-> before \o <<Ev("isfile", q)>>]
        listed(log_file_list) ==
            IF log_file_list.err # ""
            THEN [err |-> log_file_list.err, out |-> None,
                  log |-> <<Ev("isdir", p)>> \o log_file_list.log]
            ELSE read(IF Len(log_file_list.out) > 0
                      THEN log_file_list.out[Len(log_file_list.out)]
                      ELSE p,
                      <<Ev("isdir", p)>> \o log_file_list.log)
    IN  IF isdir(f, p)
        THEN listed(get_objects_in_path(f, p, "file", exts))
        ELSE read(p, <<Ev("isdir", p)>>)

\* _extract_date_helper: the timestamp of a file, or of the first qualifying
\* file of a directory; None when there is no file to read.
extract_date_helper(f, p, exts) ==
    LET read(q, before) ==
            IF isfile(f, q)
            THEN Logged(before \o <<Ev("isfile", q)>>, Opened(q, extract_date(f, q)))
            ELSE [err |-> "", out |-> None, log |-> before \o <<Ev("isfile", q)>>]
        listed(log_file_list) ==
            IF log_file_list.err # ""
            THEN [err |-> log_file_list.err, out |-> None,
                  log |-> <<Ev("isdir", p)>> \o log_file_list.log]
            ELSE read(IF Len(log_file_list.out) > 0 THEN log_file_list.out[1] ELSE p,
                      <<Ev("isdir", p)>> \o log_file_list.log)
    IN  IF isdir(f, p)
        THEN listed(get_objects_in_path(f, p, "file", exts))
        ELSE read(p, <<Ev("isdir", p)>>)

\* Lines 47-51: one result per entry of a list, in its order.
RECURSIVE extract_each(_, _, _)
extract_each(f, entries, exts) ==
    LET one(r) == [err |-> r.err, out |-> <<r.out>>, log |-> r.log]
    IN  IF entries = <<>>
        THEN [err |-> "", out |-> <<>>, log |-> <<>>]
        ELSE Then(one(extract_date_helper(f, Head(entries), exts)),
                  extract_each(f, Tail(entries), exts))

\* get_first_timestamp(fs, path, file_extensions)
get_first_timestamp(f, f_arg, p_arg, file_exts) ==
    IF f_arg = "none" \/ p_arg.kind = "none"
    THEN [err |-> "ValueError", out |-> None, log |-> <<>>]
    ELSE IF p_arg.kind = "list"
    THEN extract_each(f, p_arg.paths, lowered_extensions(file_exts))
    ELSE extract_date_helper(f, p_arg.paths[1], lowered_extensions(file_exts))

-----------------------------------------------------------------------------
(* The inputs explored *)

Dir(p) == [name |-> p, type |-> "directory", ts |-> Epoch]
File(p, t) == [name |-> p, type |-> "file", ts |-> t]

NonDecreasing(fn, n) == \A j \in 1..(n - 1) : fn[j] <= fn[j + 1]

\* A card of device 1 with s sessions and n log files: file j carries the
\* timestamp ts[j] and lies in session cut[j]; a session no file lies in is
\* empty.  Names and timestamps are both in ascending order.
Card(n, s, ts, cut) ==
    [exists |-> {1},
     nodes |-> {Dir(SessionPath(1, k)) : k \in 1..s}
               \cup {File(FilePath(1, cut[j], j, "MF4"), ts[j]) : j \in 1..n},
     bad |-> {}]

Cards ==
    UNION {UNION {{Card(n, s, ts, cut) :
                     ts \in {t \in [1..n -> 1..MaxTime] : NonDecreasing(t, n)},
                     cut \in {c \in [1..n -> 1..s] : NonDecreasing(c, n)}} :
                  s \in 0..MaxSessions} :
           n \in 0..MaxFiles}

\* A fleet: device 1 and device 2 exist, no other does.  Device 2 holds, next
\* to its log files, a file without a suffix, a directory inside a session
\* and a file beside its sessions.
FleetNodes ==
    {Dir(SessionPath(1, 1)), Dir(SessionPath(1, 2)),
     File(FilePath(1, 1, 1, "MF4"), 1), File(FilePath(1, 1, 2, "MF4"), 1),
     File(FilePath(1, 1, 3, "mf4"), 2),
     File(FilePath(1, 2, 4, "MF4"), 2), File(FilePath(1, 2, 5, "TXT"), 2),
     Dir(SessionPath(2, 1)), Dir(SessionPath(2, 2)),
     File(FilePath(2, 1, 1, "MF4"), 1), File(FilePath(2, 1, 2, "txt"), 1),
     File(FilePath(2, 1, 3, ""), 1), Dir(FilePath(2, 1, 4, "MF4")),
     File(FilePath(2, 2, 5, "mf4"), 2),
     File(FilePath(2, 3, 0, "MF4"), 2)}

FleetBad ==
    {{}, {FilePath(1, 1, 1, "MF4")}, {FilePath(1, 1, 2, "MF4")}, {FilePath(2, 2, 5, "mf4")}}

Fleets == {[exists |-> {1, 2}, nodes |-> FleetNodes, bad |-> b] : b \in FleetBad}

\* The device names a caller may pass: 1 and 2 exist in a fleet, the others do not.
DeviceNames == {<<d>> : d \in 1..3}

DeviceLists == UNION {[1..n -> DeviceNames] : n \in 0..MaxDevices}

StartDates == {None} \cup 0..MaxTime
StopDates == {None} \cup 1..MaxTime

ExtensionArgs == {NoneExt, {"mf4", "TXT"}, {"txt"}}

\* What a call starts from, whatever its arguments.
Fresh ==
    /\ path = <<0>>
    /\ pc = "call"
    /\ device_list = <<>>
    /\ extensions = {}
    /\ i = 0
    /\ result = <<>>
    /\ returned = <<>>
    /\ error = ""
    /\ log = <<>>
    /\ objects = <<>>
    /\ selection = [err |-> "", out |-> <<>>, log |-> <<>>]
    /\ fbl = FuncBackedList(NoExtractor(fs), <<>>)
    /\ reads = <<>>
    /\ first_path = [kind |-> "none", paths |-> <<>>]
    /\ first = None

\* A search in a time window on one card.
InitWindow ==
    /\ fs \in Cards
    /\ fs_arg = "ok"
    /\ devices_arg = "list"
    /\ devices = << <<1>> >>
    /\ file_extensions = NoneExt
    /\ start_date \in StartDates
    /\ stop_date \in StopDates
    /\ Fresh

\* A search over several devices of a fleet.
InitFleet ==
    /\ fs \in Fleets
    /\ fs_arg = "ok"
    /\ devices \in DeviceLists
    /\ devices_arg \in (IF Len(devices) = 1 THEN {"list", "str"} ELSE {"list"})
    /\ file_extensions \in ExtensionArgs
    /\ start_date \in StartDates
    /\ stop_date \in StopDates
    /\ Fresh

\* A call with an argument that is not acceptable.
InitInvalid ==
    /\ fs \in Fleets
    /\ fs_arg \in {"ok", "none", "invalid"}
    /\ devices_arg \in {"list", "none"}
    /\ fs_arg # "ok" \/ devices_arg = "none"
    /\ devices \in {<<>>, << <<1>> >>}
    /\ file_extensions = NoneExt
    /\ start_date \in {None, 1}
    /\ stop_date = None
    /\ Fresh

Init == InitWindow \/ InitFleet \/ InitInvalid

-----------------------------------------------------------------------------
(* The steps of one call *)

\* Lines 83-86 without the test for None: None fails the isinstance test.
RejectFilesystem_untested ==
    /\ pc = "call"
    /\ fs_arg # "ok"
    /\ pc' = "raised"
    /\ error' = "TypeError"
    /\ UNCHANGED <<fs, fs_arg, devices_arg, devices, path, file_extensions, start_date,
                   stop_date, device_list, extensions, i, result, returned, log>>
    /\ UNCHANGED <<bisect_vars, list_vars, first_vars>>

\* Lines 83-86: the filesystem is checked first.
RejectFilesystem ==
    /\ pc = "call"
    /\ fs_arg # "ok"
    /\ pc' = "raised"
    /\ error' = (IF fs_arg = "none" THEN "ValueError" ELSE "TypeError")
    /\ UNCHANGED <<fs, fs_arg, devices_arg, devices, path, file_extensions, start_date,
                   stop_date, device_list, extensions, i, result, returned, log>>
    /\ UNCHANGED <<bisect_vars, list_vars, first_vars>>

\* Lines 89-97: the extensions are lowered, then devices is checked.
RejectDevices ==
    /\ pc = "call"
    /\ fs_arg = "ok"
    /\ devices_arg = "none"
    /\ pc' = "raised"
    /\ error' = "TypeError"
    /\ extensions' = lowered_extensions(file_extensions)
    /\ UNCHANGED <<fs, fs_arg, devices_arg, devices, path, file_extensions, start_date,
                   stop_date, device_list, i, result, returned, log>>
    /\ UNCHANGED <<bisect_vars, list_vars, first_vars>>

\* Lines 89-124: a str becomes a list of its own; a list is the caller's, and
\* line 104 writes the prefixed roots into it.
Prepare ==
    /\ pc = "call"
    /\ fs_arg = "ok"
    /\ devices_arg # "none"
    /\ extensions' = lowered_extensions(file_extensions)
    /\ device_list' = prefixed(path, devices)
    /\ devices' = (IF devices_arg = "list" THEN prefixed(path, devices) ELSE devices)
    /\ result' = <<>>
    /\ i' = 0
    /\ pc' = "loop"
    /\ UNCHANGED <<fs, fs_arg, devices_arg, path, file_extensions, start_date, stop_date,
                   returned, error, log>>
    /\ UNCHANGED <<bisect_vars, list_vars, first_vars>>

\* The iteration of line 126 that is due.
Body == device_body(fs, device_list[i + 1], start_date, stop_date, extensions)

\* Lines 128-131: the device root does not exist.
SkipDevice ==
    LET step(body) ==
            /\ body.skip
            /\ i' = i + 1
            /\ log' = log \o body.log
    IN  /\ pc = "loop"
        /\ i < Len(device_list)
        /\ step(Body)
        /\ UNCHANGED <<fs, fs_arg, devices_arg, devices, path, file_extensions, start_date,
                       stop_date, pc, device_list, extensions, result, returned, error>>
        /\ UNCHANGED <<bisect_vars, list_vars, first_vars>>

\* Lines 128-183: the files of one device are added to result.
ProcessDevice ==
    LET step(body) ==
            /\ ~body.skip
            /\ body.err = ""
            /\ result' = result \o body.out
            /\ i' = i + 1
            /\ log' = log \o body.log
    IN  /\ pc = "loop"
        /\ i < Len(device_list)
        /\ step(Body)
        /\ UNCHANGED <<fs, fs_arg, devices_arg, devices, path, file_extensions, start_date,
                       stop_date, pc, device_list, extensions, returned, error>>
        /\ UNCHANGED <<bisect_vars, list_vars, first_vars>>

\* The loop with every exception caught as line 130 catches FileNotFoundError:
\* the device is given up and the next one is searched.
FailDevice_caught ==
    LET step(body) ==
            /\ ~body.skip
            /\ body.err # ""
            /\ i' = i + 1
            /\ log' = log \o body.log
    IN  /\ pc = "loop"
        /\ i < Len(device_list)
        /\ step(Body)
        /\ UNCHANGED <<fs, fs_arg, devices_arg, devices, path, file_extensions, start_date,
                       stop_date, pc, device_list, extensions, result, returned, error>>
        /\ UNCHANGED <<bisect_vars, list_vars, first_vars>>

\* An exception raised inside the loop leaves get_log_files: nothing catches it.
FailDevice ==
    LET step(body) ==
            /\ ~body.skip
            /\ body.err # ""
            /\ pc' = "raised"
            /\ error' = body.err
            /\ log' = log \o body.log
    IN  /\ pc = "loop"
        /\ i < Len(device_list)
        /\ step(Body)
        /\ UNCHANGED <<fs, fs_arg, devices_arg, devices, path, file_extensions, start_date,
                       stop_date, device_list, extensions, i, result, returned>>
        /\ UNCHANGED <<bisect_vars, list_vars, first_vars>>

\* Line 186.
Return ==
    /\ pc = "loop"
    /\ i = Len(device_list)
    /\ returned' = sorted(result)
    /\ pc' = "returned"
    /\ UNCHANGED <<fs, fs_arg, devices_arg, devices, path, file_extensions, start_date,
                   stop_date, device_list, extensions, i, result, error, log>>
    /\ UNCHANGED <<bisect_vars, list_vars, first_vars>>

Next ==
    \/ RejectFilesystem
    \/ RejectDevices
    \/ Prepare
    \/ SkipDevice
    \/ ProcessDevice
    \/ FailDevice
    \/ Return

Spec == Init /\ [][Next]_vars

-----------------------------------------------------------------------------
(* _bisect_list on its own: a sorted list of log files of one session, the
   file extractor or none, and any pair of bounds *)

\* One session holding n log files with non-decreasing timestamps, of which
\* at most one cannot be read.
Shelves ==
    UNION {{[Card(n, 1, ts, [j \in 1..n |-> 1]) EXCEPT !.bad = b] :
              ts \in {t \in [1..n -> 1..MaxTime] : NonDecreasing(t, n)},
              b \in {{}} \cup {{FilePath(1, 1, j, "MF4")} : j \in 1..n}} :
           n \in 0..MaxFiles}

Bounds == {None} \cup 0..(MaxTime + 1)

InitBisect ==
    /\ fs \in Shelves
    /\ fs_arg = "ok"
    /\ devices_arg = "list"
    /\ devices = <<>>
    /\ file_extensions = NoneExt
    /\ start_date \in Bounds
    /\ stop_date \in Bounds
    /\ path = <<0>>
    /\ pc = "bisect"
    /\ device_list = <<>>
    /\ extensions = {"mf4"}
    /\ i = 0
    /\ result = <<>>
    /\ returned = <<>>
    /\ error = ""
    /\ log = <<>>
    /\ objects = get_objects_in_path(fs, SessionPath(1, 1), "file", {"mf4"}).out
    /\ selection = [err |-> "", out |-> <<>>, log |-> <<>>]
    /\ fbl = FuncBackedList(NoExtractor(fs), <<>>)
    /\ reads = <<>>
    /\ first_path = [kind |-> "none", paths |-> <<>>]
    /\ first = None

\* _bisect_list(objects, extractor, start_date, stop_date) with the
\* file extractor.
BisectWithExtractor ==
    /\ pc = "bisect"
    /\ selection' = bisect_list(objects, FileExtractor(fs), start_date, stop_date)
    /\ pc' = "bisected"
    /\ UNCHANGED <<fs, fs_arg, devices_arg, devices, path, file_extensions, start_date,
                   stop_date, device_list, extensions, i, result, returned, error, log,
                   objects>>
    /\ UNCHANGED <<list_vars, first_vars>>

\* _bisect_list(objects, None, start_date, stop_date).
BisectWithoutExtractor ==
    /\ pc = "bisect"
    /\ selection' = bisect_list(objects, NoExtractor(fs), start_date, stop_date)
    /\ pc' = "unfiltered"
    /\ UNCHANGED <<fs, fs_arg, devices_arg, devices, path, file_extensions, start_date,
                   stop_date, device_list, extensions, i, result, returned, error, log,
                   objects>>
    /\ UNCHANGED <<list_vars, first_vars>>

NextBisect == BisectWithExtractor \/ BisectWithoutExtractor

SpecBisect == InitBisect /\ [][NextBisect]_vars

-----------------------------------------------------------------------------
(* FuncBackedList on its own: a list over a few keys, any callable, and any
   sequence of reads and appends *)

Keys == 1..MaxKeys

\* What a callable does for a key: it raises, or it returns None or a timestamp.
Outcomes ==
    {[err |-> "ExtractError", out |-> None]}
        \cup {[err |-> "", out |-> v] : v \in {None, Epoch, Epoch + 1}}

InitList ==
    /\ fs = [exists |-> {}, nodes |-> {}, bad |-> {}]
    /\ fs_arg = "ok"
    /\ devices_arg = "list"
    /\ devices = <<>>
    /\ file_extensions = NoneExt
    /\ start_date = None
    /\ stop_date = None
    /\ path = <<0>>
    /\ pc = "list"
    /\ device_list = <<>>
    /\ extensions = {}
    /\ i = 0
    /\ result = <<>>
    /\ returned = <<>>
    /\ error = ""
    /\ log = <<>>
    /\ objects = <<>>
    /\ selection = [err |-> "", out |-> <<>>, log |-> <<>>]
    /\ \E table \in [Keys -> Outcomes], n \in 0..MaxLen :
           fbl = FuncBackedList(Callable(table), [j \in 1..n |-> j])
    /\ reads = [j \in 1..len(fbl) |-> <<>>]
    /\ first_path = [kind |-> "none", paths |-> <<>>]
    /\ first = None

\* The reads made so far.
ReadCount ==
    Cardinality({<<j, k>> \in (1..Len(reads)) \X (1..MaxReads) : k <= Len(reads[j])})

\* l[item]: the value or the exception, and the list as the read leaves it.
ReadItem ==
    LET read(item, r) ==
            /\ fbl' = r.list
            /\ reads' = [reads EXCEPT ![item + 1] =
                            Append(@, [err |-> r.err, out |-> r.out, invoked |-> r.log # <<>>,
                                       before |-> fbl.values, after |-> r.list.values])]
    IN  /\ pc = "list"
        /\ ReadCount < MaxReads
        /\ \E item \in 0..(len(fbl) - 1) : read(item, getitem(fbl, item))
        /\ UNCHANGED <<fs, fs_arg, devices_arg, devices, path, file_extensions, start_date,
                       stop_date, pc, device_list, extensions, i, result, returned, error, log>>
        /\ UNCHANGED <<bisect_vars, first_vars>>

\* l.append(value)
AppendKey ==
    /\ pc = "list"
    /\ len(fbl) < MaxLen
    /\ \E value \in Keys : fbl' = append(fbl, value)
    /\ reads' = Append(reads, <<>>)
    /\ UNCHANGED <<fs, fs_arg, devices_arg, devices, path, file_extensions, start_date,
                   stop_date, pc, device_list, extensions, i, result, returned, error, log>>
    /\ UNCHANGED <<bisect_vars, first_vars>>

NextList == ReadItem \/ AppendKey

SpecList == InitList /\ [][NextList]_vars

-----------------------------------------------------------------------------
(* get_first_timestamp on a fleet: any file, directory or missing path, or a
   list of paths *)

\* Every path of a fleet, the roots of its devices, and paths that do not exist.
FirstPaths ==
    {n.name : n \in FleetNodes} \cup {DevicePath(d) : d \in 1..3} \cup {SessionPath(1, 3)}

\* The paths a list argument is made of.
ListedPaths == {SessionPath(1, 1), SessionPath(2, 2), FilePath(1, 1, 2, "MF4")}

FirstArgs ==
    {[kind |-> "none", paths |-> <<>>]}
        \cup {[kind |-> "str", paths |-> <<q>>] : q \in FirstPaths}
        \cup {[kind |-> "list", paths |-> l] :
                 l \in UNION {[1..n -> ListedPaths] : n \in 0..MaxDevices}}

InitFirst ==
    /\ fs \in Fleets
    /\ fs_arg \in {"ok", "none"}
    /\ devices_arg = "list"
    /\ devices = <<>>
    /\ file_extensions \in ExtensionArgs
    /\ start_date = None
    /\ stop_date = None
    /\ path = <<0>>
    /\ pc = "first"
    /\ device_list = <<>>
    /\ extensions = {}
    /\ i = 0
    /\ result = <<>>
    /\ returned = <<>>
    /\ error = ""
    /\ log = <<>>
    /\ objects = <<>>
    /\ selection = [err |-> "", out |-> <<>>, log |-> <<>>]
    /\ fbl = FuncBackedList(NoExtractor(fs), <<>>)
    /\ reads = <<>>
    /\ first_path \in FirstArgs
    /\ first = None

\* One call of get_first_timestamp, to its return or to its exception.
FirstTimestamp ==
    LET step(r) ==
            /\ pc' = (IF r.err # "" THEN "failed" ELSE "resolved")
            /\ error' = r.err
            /\ first' = r.out
            /\ log' = log \o r.log
    IN  /\ pc = "first"
        /\ step(get_first_timestamp(fs, fs_arg, first_path, file_extensions))
        /\ UNCHANGED <<fs, fs_arg, devices_arg, devices, path, file_extensions, start_date,
                       stop_date, device_list, extensions, i, result, returned, first_path>>
        /\ UNCHANGED <<bisect_vars, list_vars>>

NextFirst == FirstTimestamp

SpecFirst == InitFirst /\ [][NextFirst]_vars

-----------------------------------------------------------------------------
(* Both entry points: a call of get_log_files or a call of get_first_timestamp *)

InitCalls == Init \/ InitFirst

NextCalls == Next \/ NextFirst

SpecCalls == InitCalls /\ [][NextCalls]_vars

-----------------------------------------------------------------------------
(* A search and the range selection it is built on: a call of get_log_files or
   a call of _bisect_list *)

InitSearch == Init \/ InitBisect

NextSearch == Next \/ NextBisect

SpecSearch == InitSearch /\ [][NextSearch]_vars

-----------------------------------------------------------------------------
(* What the properties speak about *)

Range(s) == {s[j] : j \in 1..Len(s)}

\* The devices the call was asked for.
Requested == {Translate(device_list[j]).dev : j \in 1..Len(device_list)}

\* The session directories of device d.
Sessions(d) == {n \in fs.nodes : n.type = "directory" /\ n.name.dev = d /\ n.name.ctr = 0}

\* The qualifying files of device d: files directly under one of its session
\* directories whose suffix, case put aside, is a requested extension.
LogFiles(d) ==
    {n \in fs.nodes :
        /\ n.type = "file"
        /\ n.name.dev = d
        /\ n.name.ctr > 0
        /\ \E s \in Sessions(d) : s.name.ses = n.name.ses
        /\ n.name.ext # ""
        /\ Lower(n.name.ext) \in lowered_extensions(file_extensions)}

\* The timestamp stored in a file.
Stamp(p) == (CHOOSE n \in fs.nodes : n.name = p).ts

\* Name order is time order on device d.
Chronological(d) == \A n, m \in LogFiles(d) : PathLess(n.name, m.name) => n.ts <= m.ts

\* Every session of device d holds a qualifying file.
NoEmptySession(d) == \A s \in Sessions(d) : \E n \in LogFiles(d) : n.name.ses = s.name.ses

AtOrAfterStart(t) == start_date = None \/ start_date <= t
AtOrBeforeStop(t) == stop_date = None \/ t <= stop_date
InWindow(t) == AtOrAfterStart(t) /\ AtOrBeforeStop(t)

-----------------------------------------------------------------------------
(* C1 *)

\* C1: window completeness.  When get_log_files returns, then for every
\* requested device whose files are in chronological order and whose sessions
\* all hold a qualifying file, every qualifying file with a timestamp inside
\* [start_date, stop_date] is in the returned list.
C1_WindowComplete ==
    pc = "returned" =>
        \A d \in Requested \cap fs.exists :
            (Chronological(d) /\ NoEmptySession(d)) =>
                \A n \in LogFiles(d) : InWindow(n.ts) => n.name \in Range(returned)

-----------------------------------------------------------------------------
(* C2 *)

\* C2: range selection soundness.  On a sorted list whose timestamps do not
\* decrease, _bisect_list returns a contiguous slice objects[a:b], in the
\* original order, in which every entry has its timestamp within
\* [start_date, stop_date], except possibly the first entry of the slice; that
\* entry is then the one immediately before the first entry whose timestamp is
\* at or after start_date.
C2_BisectSound ==
    (pc = "bisected" /\ selection.err = "") =>
        \E a \in 0..Len(objects), b \in 0..Len(objects) :
            /\ selection.out = Slice(objects, a, b)
            /\ \A j \in (a + 2)..b : InWindow(Stamp(objects[j]))
            /\ a + 1 <= b =>
                  \/ InWindow(Stamp(objects[a + 1]))
                  \/ /\ a + 2 <= Len(objects)
                     /\ AtOrAfterStart(Stamp(objects[a + 2]))
                     /\ \A j \in 1..(a + 1) : ~AtOrAfterStart(Stamp(objects[j]))

\* A selection of several entries out of more, the first of them before
\* start_date, with both bounds given.
C2_Witness ==
    /\ pc = "bisected"
    /\ selection.err = ""
    /\ start_date # None
    /\ stop_date # None
    /\ Len(selection.out) >= 2
    /\ Len(selection.out) < Len(objects)
    /\ Stamp(selection.out[1]) < start_date

-----------------------------------------------------------------------------
(* C3 *)

\* The first qualifying file of device d, in (session, file) order, with a
\* timestamp at or after start_date.
FirstAtOrAfterStart(d) ==
    CHOOSE n \in LogFiles(d) :
        /\ n.ts >= start_date
        /\ \A m \in LogFiles(d) : m.ts >= start_date => ~PathLess(m.name, n.name)

\* The qualifying files of device d before file n.
Before(d, n) == {m \in LogFiles(d) : PathLess(m.name, n.name)}

\* The last of a set of files.
Last(files) == CHOOSE m \in files : \A k \in files : ~PathLess(m.name, k.name)

\* C3: one-entry backward inclusion.  When get_log_files is called with a
\* start_date (and no stop_date) and returns, then for every requested device
\* with chronologically ordered files, no empty session and a qualifying file
\* at or after start_date: the file immediately before the first such file is
\* returned if there is one, also from the previous session, and no file
\* before that one is returned.
C3_BackwardInclusion ==
    (pc = "returned" /\ start_date # None /\ stop_date = None) =>
        \A d \in Requested \cap fs.exists :
            (/\ Chronological(d)
             /\ NoEmptySession(d)
             /\ \E n \in LogFiles(d) : n.ts >= start_date
             /\ Before(d, FirstAtOrAfterStart(d)) # {}) =>
                LET previous == Last(Before(d, FirstAtOrAfterStart(d)))
                IN  /\ previous.name \in Range(returned)
                    /\ \A k \in Before(d, previous) : k.name \notin Range(returned)

-----------------------------------------------------------------------------
(* C4 *)

\* The qualifying files of every requested device that exists.
AllLogFiles == UNION {LogFiles(d) : d \in Requested \cap fs.exists}

\* A list of paths in ascending order.
Ascending(s) == \A j, k \in 1..Len(s) : j < k => ~PathLess(s[k], s[j])

\* C4: without start_date and stop_date, get_log_files returns exactly the
\* files that lie directly under a session directory of an existing requested
\* device and carry a requested extension, in ascending order.
C4_NoWindowExact ==
    (pc = "returned" /\ start_date = None /\ stop_date = None) =>
        /\ Range(returned) = {n.name : n \in AllLogFiles}
        /\ Ascending(returned)

\* Both devices of a fleet searched for two extensions, one spelled in upper
\* case, the devices named in descending order.
C4_Witness ==
    /\ pc = "returned"
    /\ start_date = None
    /\ stop_date = None
    /\ file_extensions = {"mf4", "TXT"}
    /\ Len(device_list) = 2
    /\ Translate(device_list[1]).dev = 2
    /\ Translate(device_list[2]).dev = 1
    /\ Len(returned) >= 5

-----------------------------------------------------------------------------
(* C5 *)

\* C5: the returned list holds every path at most once, whatever the devices
\* argument, a list naming a device twice included.
C5_NoDuplicates ==
    pc = "returned" => \A j, k \in 1..Len(returned) : j # k => returned[j] # returned[k]

-----------------------------------------------------------------------------
(* C6 *)

\* The requested roots that exist, in the order requested.
Present == SelectSeq(device_list, LAMBDA r : Translate(r).dev \in fs.exists)

\* The same call with the missing devices left out of the list.
WithoutMissing ==
    get_log_files(fs, fs_arg, "list", Present, <<>>, file_extensions, start_date, stop_date)

\* C6: a requested device whose root does not exist contributes no entry and
\* raises no error, and the outcome of the call (the list returned, or the
\* exception another device raises) is that of the call without the missing
\* devices, wherever they stand in the list.
C6_MissingDeviceSkipped ==
    (pc \in {"returned", "raised"} /\ fs_arg = "ok" /\ devices_arg # "none") =>
        /\ error # "FileNotFoundError"
        /\ error = WithoutMissing.err
        /\ returned = WithoutMissing.out
        /\ \A q \in Range(returned) : q.dev \in fs.exists
        /\ Present = <<>> => (pc = "returned" /\ returned = <<>>)

\* A search from a start_date over a missing device followed by an existing
\* one, which returns files.
C6_Witness ==
    /\ pc = "returned"
    /\ start_date # None
    /\ Len(device_list) = 2
    /\ Translate(device_list[1]).dev \notin fs.exists
    /\ Translate(device_list[2]).dev \in fs.exists
    /\ returned # <<>>

-----------------------------------------------------------------------------
(* C7 *)

\* The call for one device root alone.
Single(root) ==
    get_log_files(fs, fs_arg, "list", <<root>>, <<>>, file_extensions, start_date, stop_date)

\* The sorted union of two lists of paths.
SortedUnion(x, y) == sorted(AnyOrder(Range(x) \cup Range(y)))

\* C7: device merging.  What get_log_files returns for [A, B] is the sorted
\* union of what it returns for [A] and for [B], and it is what it returns
\* for [B, A].
C7_DeviceMerge ==
    (pc = "returned" /\ Len(device_list) = 2) =>
        /\ Single(device_list[1]).err = ""
        /\ Single(device_list[2]).err = ""
        /\ returned = SortedUnion(Single(device_list[1]).out, Single(device_list[2]).out)
        /\ returned = get_log_files(fs, fs_arg, "list", <<device_list[2], device_list[1]>>,
                                    <<>>, file_extensions, start_date, stop_date).out

-----------------------------------------------------------------------------
(* C8 *)

\* The first of a set of files.
First(files) == CHOOSE m \in files : \A k \in files : ~PathLess(k.name, m.name)

\* C8: a window that encloses all data returns everything.  If start_date,
\* when given, is not later than the timestamp of the first file of a
\* requested device, and stop_date, when given, is not earlier than the
\* timestamp of its last file, every qualifying file of the device is returned.
C8_EnclosingWindow ==
    pc = "returned" =>
        \A d \in Requested \cap fs.exists :
            (/\ LogFiles(d) # {}
             /\ start_date # None => start_date <= First(LogFiles(d)).ts
             /\ stop_date # None => Last(LogFiles(d)).ts <= stop_date) =>
                \A n \in LogFiles(d) : n.name \in Range(returned)

-----------------------------------------------------------------------------
(* C9 *)

\* C9: invalid arguments fail fast.  Once the call has left its first lines,
\* a filesystem that is None has raised ValueError, one that is no
\* AbstractFileSystem has raised TypeError, devices that is None has raised
\* TypeError, and no operation has been issued on the filesystem.
C9_InvalidArgumentsFailFast ==
    (pc \in {"loop", "returned", "raised"}) =>
        /\ fs_arg = "none" => (pc = "raised" /\ error = "ValueError" /\ log = <<>>)
        /\ fs_arg = "invalid" => (pc = "raised" /\ error = "TypeError" /\ log = <<>>)
        /\ (fs_arg = "ok" /\ devices_arg = "none") =>
              (pc = "raised" /\ error = "TypeError" /\ log = <<>>)

\* A call with a filesystem and without devices has raised.
C9_Witness ==
    /\ pc = "raised"
    /\ fs_arg = "ok"
    /\ devices_arg = "none"
    /\ error = "TypeError"

-----------------------------------------------------------------------------
(* C10 *)

\* The positions in the log at which a file that cannot be read was opened.
FailedOpens == {j \in 1..Len(log) : log[j].op = "open" /\ log[j].path \in fs.bad}

\* C10: extraction failures are fatal.  Once the extractor has been invoked
\* on a file it fails for, the call has raised that failure; the iteration of
\* the affected device was not completed, nothing was issued on the filesystem
\* after the failing file was released, and nothing is returned.
C10_ExtractionFailureFatal ==
    FailedOpens # {} =>
        /\ pc = "raised"
        /\ error = "ExtractError"
        /\ returned = <<>>
        /\ Cardinality(FailedOpens) = 1
        /\ i < Len(device_list)
        /\ Translate(device_list[i + 1]).dev = log[Len(log)].path.dev
        /\ \A j \in FailedOpens : j = Len(log) - 1 /\ log[Len(log)] = Ev("close", log[j].path)

\* The second device of the list fails after the first has contributed files.
C10_Witness ==
    /\ pc = "raised"
    /\ error = "ExtractError"
    /\ i = 1
    /\ result # <<>>
    /\ FailedOpens # {}

-----------------------------------------------------------------------------
(* C11 *)

\* Every spelling of an extension.
Spellings == {"MF4", "TXT", "mf4", "txt"}

\* The extension sets that differ from E in the case of their letters only.
CaseVariants(E) ==
    {V \in (SUBSET Spellings) \ {{}} : {Lower(e) : e \in V} = {Lower(e) : e \in E}}

\* The call as it was made, with another set of extensions.
WithExtensions(V) ==
    get_log_files(fs, fs_arg, "list", device_list, <<>>, V, start_date, stop_date)

\* C11: extension filtering is case-insensitive in both directions.  The
\* outcome of a call made with the extension set E is the outcome of the call
\* made with any case variant of E, and without a window a file of a requested
\* device is returned whenever its suffix is, in any case, a spelling of a
\* requested extension.
C11_ExtensionCaseInsensitive ==
    (pc \in {"returned", "raised"} /\ fs_arg = "ok" /\ devices_arg # "none"
        /\ file_extensions # NoneExt) =>
        /\ \A V \in CaseVariants(file_extensions) :
              /\ WithExtensions(V).err = error
              /\ WithExtensions(V).out = returned
        /\ (pc = "returned" /\ start_date = None /\ stop_date = None) =>
              \A n \in fs.nodes :
                  (/\ n.type = "file"
                   /\ n.name.dev \in Requested
                   /\ n.name.ctr > 0
                   /\ \E d \in Sessions(n.name.dev) : d.name.ses = n.name.ses
                   /\ \E e \in file_extensions : Lower(e) = Lower(n.name.ext)) =>
                      n.name \in Range(returned)

\* A search for "mf4" and "TXT" that returns files with the suffixes MF4, mf4
\* and TXT.
C11_Witness ==
    /\ pc = "returned"
    /\ file_extensions = {"mf4", "TXT"}
    /\ \E x, y, z \in Range(returned) : x.ext = "MF4" /\ y.ext = "mf4" /\ z.ext = "TXT"

-----------------------------------------------------------------------------
(* C12 *)

\* The reads of the index at position k that came back with a value.
Returned(k) == {j \in 1..Len(reads[k]) : reads[k][j].err = ""}

\* C12: memoisation.  Over any sequence of reads and appends on one
\* FuncBackedList and for every callable: for an index that a read returned a
\* value of, exactly one of those reads invoked the callable, and it is the
\* first of them; every such read returned the same value; and the list holds
\* that value for the index from then on.
C12_Memoised ==
    pc = "list" =>
        \A k \in 1..Len(reads) :
            Returned(k) # {} =>
                /\ Cardinality({j \in Returned(k) : reads[k][j].invoked}) = 1
                /\ \A j \in Returned(k) :
                      reads[k][j].invoked <=> (\A h \in Returned(k) : j <= h)
                /\ \A j, h \in Returned(k) : reads[k][j].out = reads[k][h].out
                /\ \A j \in Returned(k) : fbl.values[k] = reads[k][j].out

-----------------------------------------------------------------------------
(* C13 *)

\* The reads of the index at position k that raised.
Raised(k) == {j \in 1..Len(reads[k]) : reads[k][j].err # ""}

\* C13: failed resolutions are not cached.  A read that raises has invoked
\* the callable on an unresolved index and hands its exception to the caller;
\* it leaves the cache of every index as it was, the index of the read
\* unresolved; the next read of that index invokes the callable again, and
\* the index is unresolved for as long as no read of it returns.
C13_FailureNotCached ==
    pc = "list" =>
        \A k \in 1..Len(reads) :
            /\ \A j \in Raised(k) :
                  /\ reads[k][j].err = fbl.func.table[fbl.keys[k]].err
                  /\ reads[k][j].invoked
                  /\ reads[k][j].before[k] = None
                  /\ reads[k][j].after = reads[k][j].before
                  /\ j < Len(reads[k]) => reads[k][j + 1].invoked
            /\ (Raised(k) # {} /\ Returned(k) = {}) => fbl.values[k] = None

\* An index whose resolution failed is read again and fails again, beside an
\* index that is resolved.
C13_Witness ==
    /\ pc = "list"
    /\ \E k, h \in 1..Len(reads) :
          /\ Cardinality(Raised(k)) >= 2
          /\ Returned(h) # {}
          /\ fbl.values[h] # None

-----------------------------------------------------------------------------
(* C14 *)

\* The files directly in directory p that carry a requested extension.
Qualifying(p) ==
    {n \in fs.nodes :
        /\ n.type = "file"
        /\ n.name.dev = p.dev
        /\ \/ p.ses = 0 /\ n.name.ctr = 0
           \/ p.ses > 0 /\ p.ctr = 0 /\ n.name.ses = p.ses /\ n.name.ctr > 0
        /\ n.name.ext # ""
        /\ Lower(n.name.ext) \in lowered_extensions(file_extensions)}

\* The files opened so far.
OpenedPaths == {log[j].path : j \in {k \in 1..Len(log) : log[k].op = "open"}}

\* What get_first_timestamp has to hand back for file q: the timestamp the
\* extractor gives, or its exception.
Extracted(q) ==
    /\ OpenedPaths = {q}
    /\ IF q \in fs.bad
       THEN pc = "failed" /\ error = "ExtractError"
       ELSE pc = "resolved" /\ first = Stamp(q)

\* C14: get_first_timestamp on a single path.  For a directory holding a
\* qualifying file it hands back what the extractor gives for the first of
\* them in name order; for a directory without one it returns None and opens
\* no file; for a file it hands back what the extractor gives for that file.
C14_FirstTimestamp ==
    (pc \in {"resolved", "failed"} /\ fs_arg = "ok" /\ first_path.kind = "str") =>
        LET p == first_path.paths[1]
        IN  /\ (isdir(fs, p) /\ Qualifying(p) # {}) => Extracted(First(Qualifying(p)).name)
            /\ (isdir(fs, p) /\ Qualifying(p) = {}) =>
                  (pc = "resolved" /\ first = None /\ OpenedPaths = {})
            /\ isfile(fs, p) => Extracted(p)

\* The first timestamp of a session directory that holds several qualifying
\* files with different timestamps.
C14_Witness ==
    /\ pc = "resolved"
    /\ first_path.kind = "str"
    /\ isdir(fs, first_path.paths[1])
    /\ \E n, m \in Qualifying(first_path.paths[1]) : n.ts # m.ts
    /\ first # None

-----------------------------------------------------------------------------
(* C15 *)

\* The handles open after the first k operations of the log.
Held(k) ==
    Cardinality({j \in 1..k : log[j].op = "open"})
        - Cardinality({j \in 1..k : log[j].op = "close"})

\* C15: file-handle scoping.  During get_log_files and get_first_timestamp a
\* handle opened for the extractor is released by the very next operation,
\* whether the extractor returned or raised: at most one handle is open at
\* any moment, none is open between two steps of the call nor when it returns
\* or raises, and a call the extractor failed ends with the release of the
\* file it failed on.
C15_HandlesScoped ==
    /\ \A k \in 0..Len(log) : Held(k) \in {0, 1}
    /\ Held(Len(log)) = 0
    /\ \A j \in 1..Len(log) :
          log[j].op = "open" => (j < Len(log) /\ log[j + 1] = Ev("close", log[j].path))
    /\ \A j \in 1..Len(log) :
          log[j].op = "close" => (j > 1 /\ log[j - 1] = Ev("open", log[j].path))
    /\ error = "ExtractError" =>
          (log # <<>> /\ log[Len(log)].op = "close" /\ log[Len(log)].path \in fs.bad)

\* A call of get_log_files that the extractor fails after another file has
\* been read, or a call of get_first_timestamp that the extractor fails.
C15_Witness ==
    \/ /\ pc = "raised"
       /\ error = "ExtractError"
       /\ Cardinality({j \in 1..Len(log) : log[j].op = "open"}) >= 2
    \/ /\ pc = "failed"
       /\ error = "ExtractError"

-----------------------------------------------------------------------------
(* C16 *)

\* The number of entries of objects with a timestamp before t, and at or
\* before t.
CountBefore(t) == Cardinality({j \in 1..Len(objects) : Stamp(objects[j]) < t})
CountUpTo(t) == Cardinality({j \in 1..Len(objects) : Stamp(objects[j]) <= t})

\* The start of the slice by a linear scan.
LinearStart ==
    LET stepped(i0) == IF 0 < i0 /\ i0 < Len(objects) THEN i0 - 1 ELSE i0
    IN  IF start_date = None THEN 0 ELSE stepped(CountBefore(start_date))

\* The end of the slice by a linear scan.
LinearStop == IF stop_date = None THEN Len(objects) ELSE CountUpTo(stop_date)

\* C16: _bisect_list agrees with the linear scan.  On a sorted list whose
\* timestamps do not decrease it returns objects[i:j], where i is the number
\* of entries before start_date, less one when that number is neither 0 nor
\* the length of the list (0 without start_date), and j is the number of
\* entries at or before stop_date (the length of the list without stop_date);
\* the result is empty when i >= j; without an extractor it returns the whole
\* list and reads nothing.
C16_BisectMatchesLinearScan ==
    /\ (pc = "bisected" /\ selection.err = "") =>
          /\ selection.out = Slice(objects, LinearStart, LinearStop)
          /\ LinearStart >= LinearStop => selection.out = <<>>
    /\ pc = "unfiltered" =>
          (selection.err = "" /\ selection.out = objects /\ selection.log = <<>>)

\* Both bounds cut the list: one entry before start_date is kept, an entry
\* stamped stop_date is the last one kept, and later entries are left out.
C16_Witness ==
    /\ pc = "bisected"
    /\ selection.err = ""
    /\ start_date # None
    /\ stop_date # None
    /\ 0 < LinearStart + 1
    /\ LinearStart + 1 < Len(objects)
    /\ Stamp(objects[LinearStart + 1]) < start_date
    /\ LinearStop < Len(objects)
    /\ LinearStart < LinearStop
    /\ Stamp(objects[LinearStop]) = stop_date

-----------------------------------------------------------------------------
(* C17 *)

\* The sessions of device d that lines 134-139 select.
Selected(d) ==
    bisect_list(get_objects_in_path(fs, DevicePath(d), "directory", NoneExt).out,
                SessionExtractor(fs, extensions), start_date, stop_date).out

\* The qualifying files of the sessions of device d strictly between the
\* first and the last selected one.
Between(d) ==
    {n \in LogFiles(d) :
        \E k \in 2..(Len(Selected(d)) - 1) : Selected(d)[k].ses = n.name.ses}

\* The returned files of device d.
ReturnedOf(d) == {n \in LogFiles(d) : n.name \in Range(returned)}

-----------------------------------------------------------------------------
(* C18 *)

\* The sessions of device d without a qualifying file.
EmptySessions(d) ==
    {n \in Sessions(d) : \A m \in LogFiles(d) : m.name.ses # n.name.ses}

\* The filesystem without the empty sessions of device d.
WithoutEmpty(d) == [fs EXCEPT !.nodes = fs.nodes \ EmptySessions(d)]

\* The sessions of device d that lines 134-139 select on filesystem f.
SelectedIn(f, d) ==
    bisect_list(get_objects_in_path(f, DevicePath(d), "directory", NoneExt).out,
                SessionExtractor(f, extensions), start_date, stop_date).out

\* C18: sessions without qualifying files.  When get_log_files is called
\* with a start_date (and no stop_date) and returns, then for every requested
\* device with chronologically ordered files, wherever its empty sessions
\* stand: every empty session is among the selected sessions, and the
\* non-empty sessions selected are those selected when the empty sessions are
\* not there.
C18_EmptySessionNeutral ==
    (pc = "returned" /\ start_date # None /\ stop_date = None) =>
        \A d \in Requested \cap fs.exists :
            Chronological(d) =>
                /\ \A n \in EmptySessions(d) : n.name \in Range(SelectedIn(fs, d))
                /\ Range(SelectedIn(fs, d)) \ {n.name : n \in EmptySessions(d)}
                      = Range(SelectedIn(WithoutEmpty(d), d))

-----------------------------------------------------------------------------
(* C19 *)

\* ceil(log2(m)) for m >= 1.
CeilLog2(m) == CHOOSE k \in 0..m : 2^k >= m /\ \A h \in 0..(k - 1) : 2^h < m

\* The positions of a log at which the extractor was given a file.
Opens(l) == {j \in 1..Len(l) : l[j].op = "open"}

\* The number of bounds supplied to the call.
BoundCount == (IF start_date # None THEN 1 ELSE 0) + (IF stop_date # None THEN 1 ELSE 0)

\* C19: the extraction count is logarithmic.  One call of _bisect_list over
\* n entries hands at most ceil(log2(n + 1)) files to the extractor per
\* supplied bound and no file twice, none when neither bound is supplied or
\* no extractor is given; and get_log_files without start_date and stop_date
\* opens no file at all.
C19_LogarithmicExtraction ==
    /\ pc \in {"bisected", "unfiltered"} =>
          /\ Cardinality(Opens(selection.log)) <= BoundCount * CeilLog2(Len(objects) + 1)
          /\ \A j, k \in Opens(selection.log) :
                selection.log[j].path = selection.log[k].path => j = k
          /\ BoundCount = 0 => selection.log = <<>>
    /\ pc = "unfiltered" => selection.log = <<>>
    /\ (pc \in {"loop", "returned", "raised"} /\ start_date = None /\ stop_date = None) =>
          Opens(log) = {}

\* A call with both bounds over at least three entries: the second search
\* reads entries the first did not, and fewer than it would without the
\* values the first left in the list.
C19_Witness ==
    /\ pc = "bisected"
    /\ selection.err = ""
    /\ BoundCount = 2
    /\ Len(objects) >= 3
    /\ Cardinality(Opens(selection.log)) > CeilLog2(Len(objects) + 1)
    /\ Cardinality(Opens(selection.log)) < 2 * CeilLog2(Len(objects) + 1)

-----------------------------------------------------------------------------
(* C20 *)

\* C20: get_log_files has no effect on its arguments.  No step of a call
\* changes the elements of the caller's devices list, so that a second call
\* with the same list object searches the device roots the first one
\* searched.
C20_ArgumentsUntouched ==
    [][/\ devices' = devices
       /\ prefixed(path, devices') = prefixed(path, devices)]_vars

=============================================================================
